---- MODULE Spec2Model ----
(***************************************************************************)
(* SwiftLanguageServer._start_server (solidlsp, swift_language_server.py): *)
(* the start-up sequence of the SourceKit-LSP session and the readiness    *)
(* handlers it installs.  Two threads are modelled: the supervisor thread  *)
(* running _start_server statement by statement, and the transport's       *)
(* message-delivery thread running one handler at a time.  The server      *)
(* process is an unconstrained environment: it may answer the initialize   *)
(* request with any capability set, or not at all, and may send any of the *)
(* inbound messages below at any moment after the transport was started.   *)
(***************************************************************************)
EXTENDS Integers, Sequences, FiniteSets, TLC

(***************************************************************************)
(* Bounds of the model.                                                    *)
(***************************************************************************)
\* messages the server sends during one session
MaxMsgs == 3
\* largest "items" list of a workspace/configuration request
MaxItems == 3
\* seconds between two readings of the clock while the supervisor waits
TickSeconds == 5

(***************************************************************************)
(* Text: a Python str is a sequence of one-character strings.              *)
(***************************************************************************)
\* str.lower() on one character (ASCII letters; anything else is unchanged)
LowerChar(c) ==
    CASE c = "A" -> "a" [] c = "B" -> "b" [] c = "C" -> "c" [] c = "D" -> "d"
      [] c = "E" -> "e" [] c = "F" -> "f" [] c = "G" -> "g" [] c = "H" -> "h"
      [] c = "I" -> "i" [] c = "J" -> "j" [] c = "K" -> "k" [] c = "L" -> "l"
      [] c = "M" -> "m" [] c = "N" -> "n" [] c = "O" -> "o" [] c = "P" -> "p"
      [] c = "Q" -> "q" [] c = "R" -> "r" [] c = "S" -> "s" [] c = "T" -> "t"
      [] c = "U" -> "u" [] c = "V" -> "v" [] c = "W" -> "w" [] c = "X" -> "x"
      [] c = "Y" -> "y" [] c = "Z" -> "z" [] OTHER -> c

\* message_text.lower()
Lower(text) == [i \in 1..Len(text) |-> LowerChar(text[i])]

\* keyword in text  (Python substring test)
Contains(text, keyword) ==
    \E i \in 0..(Len(text) - Len(keyword)) :
        SubSeq(text, i + 1, i + Len(keyword)) = keyword

\* any(keyword in text.lower() for keyword in keywords)
AnyKeyword(text, keywords) ==
    \E k \in 1..Len(keywords) : Contains(Lower(text), keywords[k])

\* the keyword list of window_log_message
LogKeywords ==
    << <<"i","n","d","e","x","i","n","g"," ","c","o","m","p","l","e","t","e">>,
       <<"f","i","n","i","s","h","e","d"," ","i","n","d","e","x","i","n","g">>,
       <<"b","u","i","l","d"," ","c","o","m","p","l","e","t","e">>,
       <<"c","o","m","p","i","l","a","t","i","o","n"," ","f","i","n","i","s","h","e","d">>,
       <<"s","w","i","f","t"," ","p","a","c","k","a","g","e"," ","r","e","s","o","l","v","e","d">> >>

\* the keyword list of window_show_message
ShowKeywords ==
    << <<"p","a","c","k","a","g","e"," ","r","e","s","o","l","u","t","i","o","n"," ","c","o","m","p","l","e","t","e">>,
       <<"b","u","i","l","d"," ","s","u","c","c","e","e","d","e","d">>,
       <<"i","n","d","e","x","i","n","g"," ","f","i","n","i","s","h","e","d">> >>

\* the keyword list of progress_notification
ProgressKeywords ==
    << <<"i","n","d","e","x","i","n","g">>,
       <<"b","u","i","l","d","i","n","g">>,
       <<"r","e","s","o","l","v","i","n","g">> >>

(***************************************************************************)
(* The inbound messages the server is taken to send.  A message carries    *)
(* its method and the fields a handler reads; hasText / hasKind / hasItems *)
(* say whether the field is present (a handler reads it with dict.get and  *)
(* a default).                                                             *)
(***************************************************************************)
EmptyText == << >>
TxtIndexingCompleteMixed == <<"I","n","d","e","x","i","n","g"," ","C","o","m","p","l","e","t","e">>
TxtPackageResolved == <<"p","a","c","k","a","g","e"," ","r","e","s","o","l","v","e","d">>
TxtBuildSucceededUpper == <<"B","U","I","L","D"," ","S","U","C","C","E","E","D","E","D">>
TxtBuildingDependencies == <<"b","u","i","l","d","i","n","g"," ","d","e","p","e","n","d","e","n","c","i","e","s">>
TxtDone == <<"d","o","n","e">>
TxtSwiftPackageResolvedMixed == <<"S","w","i","f","t"," ","P","a","c","k","a","g","e"," ","R","e","s","o","l","v","e","d">>
TxtResolvingUpper == <<"R","E","S","O","L","V","I","N","G">>

Msg(method, hasText, text, hasKind, kind, hasItems, items) ==
    [method |-> method, hasText |-> hasText, text |-> text,
     hasKind |-> hasKind, kind |-> kind, hasItems |-> hasItems, items |-> items]

Plain(method) == Msg(method, FALSE, EmptyText, FALSE, "", FALSE, 0)
TextMsg(method, text) == Msg(method, TRUE, text, FALSE, "", FALSE, 0)
ProgressMsg(kind, text) == Msg("$/progress", TRUE, text, TRUE, kind, FALSE, 0)

LogMessages ==
    { TextMsg("window/logMessage", TxtIndexingCompleteMixed),
      TextMsg("window/logMessage", TxtPackageResolved),
      TextMsg("window/logMessage", TxtBuildSucceededUpper),
      TextMsg("window/logMessage", TxtSwiftPackageResolvedMixed),
      Plain("window/logMessage") }

ShowMessages ==
    { TextMsg("window/showMessage", TxtBuildSucceededUpper),
      TextMsg("window/showMessage", TxtIndexingCompleteMixed),
      Plain("window/showMessage") }

ProgressMessages ==
    { ProgressMsg("end", TxtBuildingDependencies),
      ProgressMsg("begin", TxtBuildingDependencies),
      ProgressMsg("end", TxtDone),
      ProgressMsg("end", TxtResolvingUpper),
      Msg("$/progress", TRUE, TxtBuildingDependencies, FALSE, "", FALSE, 0),
      Plain("$/progress") }

RequestMessages ==
    { Plain("client/registerCapability"),
      Plain("workspace/executeClientCommand"),
      Plain("textDocument/publishDiagnostics"),
      Plain("workspace/configuration") }
    \cup { Msg("workspace/configuration", FALSE, EmptyText, FALSE, "", TRUE, n) :
             n \in 0..MaxItems }

Messages == LogMessages \cup ShowMessages \cup ProgressMessages \cup RequestMessages

(***************************************************************************)
(* The initialize responses the server is taken to give: a capabilities    *)
(* mapping with any subset of the three keys _start_server looks at, or a  *)
(* response with no "capabilities" key at all.                             *)
(***************************************************************************)
CapabilityKeys == {"textDocumentSync", "completionProvider", "definitionProvider"}

NoResponse == [present |-> FALSE, hasCapabilities |-> FALSE, capabilities |-> {}]

Responses ==
    { [present |-> TRUE, hasCapabilities |-> TRUE, capabilities |-> c] :
        c \in SUBSET CapabilityKeys }
    \cup { [present |-> TRUE, hasCapabilities |-> FALSE, capabilities |-> {}] }

\* init_response.get("capabilities", {})
Capabilities(response) ==
    IF response.hasCapabilities THEN response.capabilities ELSE {}

(***************************************************************************)
(* The handler table of the transport.                                     *)
(***************************************************************************)
Methods ==
    {"client/registerCapability", "window/logMessage", "window/showMessage",
     "workspace/executeClientCommand", "workspace/configuration", "$/progress",
     "textDocument/publishDiagnostics"}

\* the methods registered with on_request (the others with on_notification)
RequestMethods ==
    {"client/registerCapability", "workspace/executeClientCommand",
     "workspace/configuration"}

\* the on_request / on_notification calls of _start_server, in program order
Registrations ==
    << [method |-> "client/registerCapability", handler |-> "do_nothing"],
       [method |-> "window/logMessage", handler |-> "window_log_message"],
       [method |-> "window/showMessage", handler |-> "window_show_message"],
       [method |-> "workspace/executeClientCommand",
        handler |-> "execute_client_command_handler"],
       [method |-> "workspace/configuration",
        handler |-> "workspace_configuration_handler"],
       [method |-> "$/progress", handler |-> "progress_notification"],
       [method |-> "textDocument/publishDiagnostics", handler |-> "do_nothing"] >>

\* timeout = 15.0, in seconds
Timeout == 15

NoMsg == Plain("")
NoReply == [to |-> "", isList |-> FALSE, list |-> << >>]
\* the Python value {}
EmptyDict == [k \in {} |-> k]

VARIABLES
    pc,                     \* the statement of _start_server the supervisor is at
    handlers,               \* the transport's table: method -> handler, or "none"
    started,                \* self.server.start() has run: the process is up
    outbox,                 \* what the client sent to the server, in order
    init_response,          \* the server's answer to initialize, once given
    nSent,                  \* how many messages the server has sent and the
                            \* delivery thread has read
    hpc,                    \* the statement the delivery thread is at
    cur,                    \* the message the delivery thread is handling
    ready_at_entry,         \* analysis_complete was set when cur's handler was called
    found_source_files,     \* self.found_source_files
    analysis_complete,      \* self.analysis_complete (threading.Event)
    completions_available,  \* self.completions_available (threading.Event)
    elapsed,                \* seconds spent in analysis_complete.wait
    logged,                 \* the log lines written so far
    flipped_by,             \* who turned analysis_complete from unset to set
    lost,                   \* methods dispatched while no handler was registered
    reply                   \* the last reply a request handler returned

vars ==
    <<pc, handlers, started, outbox, init_response, nSent, hpc, cur, ready_at_entry,
      found_source_files, analysis_complete, completions_available, elapsed,
      logged, flipped_by, lost, reply>>

sessionVars == <<found_source_files, analysis_complete, completions_available>>

\* SwiftLanguageServer.__init__, and the transport before start-up
Init ==
    /\ pc = "register"
    /\ handlers = [m \in Methods |-> "none"]
    /\ started = FALSE
    /\ outbox = << >>
    /\ init_response = NoResponse
    /\ nSent = 0
    /\ hpc = "idle"
    /\ cur = NoMsg
    /\ ready_at_entry = FALSE
    /\ found_source_files = FALSE
    /\ analysis_complete = FALSE
    /\ completions_available = FALSE
    /\ elapsed = 0
    /\ logged = {}
    /\ flipped_by = << >>
    /\ lost = {}
    /\ reply = NoReply

\* the state of the Lifecycle Supervisor the statement pc belongs to
State ==
    CASE pc = "register" -> "NotStarted"
      [] pc = "start" -> "HandlersInstalled"
      [] pc \in {"initialize", "await_response", "validate", "notify_initialized"}
            -> "TransportStarted"
      [] pc = "begin_wait" -> "HandshakeComplete"
      [] pc \in {"wait", "timeout_fallback"} -> "AwaitingReadiness"
      [] pc = "done" -> "Ready"
      [] pc = "failed" -> "Failed"

\* the number of registrations already made
Registered == Cardinality({m \in Methods : handlers[m] # "none"})

(***************************************************************************)
(* The supervisor thread: _start_server, statement by statement.           *)
(***************************************************************************)
\* mutant: self.server.start() is called ahead of the registrations
RegisterAfterStart ==
    /\ pc = "register"
    /\ started' = TRUE
    /\ LET r == Registrations[Registered + 1] IN
         handlers' = [handlers EXCEPT ![r.method] = r.handler]
    /\ pc' = IF Registered + 1 = Len(Registrations) THEN "start" ELSE "register"
    /\ UNCHANGED <<outbox, init_response, nSent, hpc, cur, ready_at_entry,
                   found_source_files, analysis_complete, completions_available,
                   elapsed, logged, flipped_by, lost, reply>>

\* self.server.on_request(...) / self.server.on_notification(...)
Register ==
    /\ pc = "register"
    /\ LET r == Registrations[Registered + 1] IN
         handlers' = [handlers EXCEPT ![r.method] = r.handler]
    /\ pc' = IF Registered + 1 = Len(Registrations) THEN "start" ELSE "register"
    /\ UNCHANGED <<started, outbox, init_response, nSent, hpc, cur, ready_at_entry,
                   found_source_files, analysis_complete, completions_available,
                   elapsed, logged, flipped_by, lost, reply>>

\* self.server.start()
StartTransport ==
    /\ pc = "start"
    /\ logged' = logged \cup {"Starting sourcekit-lsp server process"}
    /\ started' = TRUE
    /\ pc' = "initialize"
    /\ UNCHANGED <<handlers, outbox, init_response, nSent, hpc, cur, ready_at_entry,
                   found_source_files, analysis_complete, completions_available,
                   elapsed, flipped_by, lost, reply>>

\* mutant: `initialized` is sent right behind the request, with no response yet
SendInitializeThenInitialized ==
    /\ pc = "initialize"
    /\ logged' = logged \cup {"Sending initialize request"}
    /\ outbox' = outbox \o <<"initialize", "initialized">>
    /\ pc' = "await_response"
    /\ UNCHANGED <<handlers, started, init_response, nSent, hpc, cur, ready_at_entry,
                   found_source_files, analysis_complete, completions_available,
                   elapsed, flipped_by, lost, reply>>

\* self.server.send.initialize(initialize_params): the request goes out
SendInitialize ==
    /\ pc = "initialize"
    /\ logged' = logged \cup {"Sending initialize request"}
    /\ outbox' = Append(outbox, "initialize")
    /\ pc' = "await_response"
    /\ UNCHANGED <<handlers, started, init_response, nSent, hpc, cur, ready_at_entry,
                   found_source_files, analysis_complete, completions_available,
                   elapsed, flipped_by, lost, reply>>

\* the transport's send blocks the caller until the response to its request
\* has arrived; it has no timeout of its own
SendReturns == init_response.present

\* self.server.send.initialize(...) returns the server's response
InitializeReturn ==
    /\ pc = "await_response"
    /\ SendReturns
    /\ logged' = logged \cup {"Received initialize response"}
    /\ pc' = "validate"
    /\ UNCHANGED <<handlers, started, outbox, init_response, nSent, hpc,
                   cur, ready_at_entry, found_source_files, analysis_complete,
                   completions_available, elapsed, flipped_by, lost, reply>>

\* the warnings logged for the optional capabilities a response lacks
CapabilityWarnings(capabilities) ==
    (IF "completionProvider" \notin capabilities
       THEN {"Warning: no completionProvider"} ELSE {})
    \cup (IF "definitionProvider" \notin capabilities
            THEN {"Warning: no definitionProvider"} ELSE {})

\* mutant: a missing textDocumentSync is only one more warning
ValidateLenient ==
    /\ pc = "validate"
    /\ LET capabilities == Capabilities(init_response) IN
         logged' = logged \cup CapabilityWarnings(capabilities)
                     \cup (IF "textDocumentSync" \notin capabilities
                             THEN {"Warning: no textDocumentSync"} ELSE {})
    /\ pc' = "notify_initialized"
    /\ UNCHANGED <<handlers, started, outbox, init_response, nSent, hpc,
                   cur, ready_at_entry, found_source_files, analysis_complete,
                   completions_available, elapsed, flipped_by, lost, reply>>

\* mutant: completionProvider and definitionProvider are asserted as well
ValidateStrict ==
    /\ pc = "validate"
    /\ pc' = IF Capabilities(init_response) = CapabilityKeys
               THEN "notify_initialized" ELSE "failed"
    /\ UNCHANGED <<handlers, started, outbox, init_response, nSent, hpc,
                   cur, ready_at_entry, found_source_files, analysis_complete,
                   completions_available, elapsed, logged, flipped_by, lost, reply>>

\* assert "textDocumentSync" in capabilities, then the two optional checks
Validate ==
    /\ pc = "validate"
    /\ LET capabilities == Capabilities(init_response) IN
         IF "textDocumentSync" \in capabilities
           THEN /\ logged' = logged \cup CapabilityWarnings(capabilities)
                /\ pc' = "notify_initialized"
           ELSE /\ pc' = "failed"
                /\ UNCHANGED logged
    /\ UNCHANGED <<handlers, started, outbox, init_response, nSent, hpc,
                   cur, ready_at_entry, found_source_files, analysis_complete,
                   completions_available, elapsed, flipped_by, lost, reply>>

\* self.server.notify.initialized({})
NotifyInitialized ==
    /\ pc = "notify_initialized"
    /\ outbox' = Append(outbox, "initialized")
    /\ pc' = "begin_wait"
    /\ UNCHANGED <<handlers, started, init_response, nSent, hpc, cur, ready_at_entry,
                   found_source_files, analysis_complete, completions_available,
                   elapsed, logged, flipped_by, lost, reply>>

\* mutant: the event is cleared before the wait
BeginWaitClearing ==
    /\ pc = "begin_wait"
    /\ logged' = logged \cup {"Waiting for initial workspace analysis"}
    /\ analysis_complete' = FALSE
    /\ elapsed' = 0
    /\ pc' = "wait"
    /\ UNCHANGED <<handlers, started, outbox, init_response, nSent, hpc,
                   cur, ready_at_entry, found_source_files, completions_available, flipped_by,
                   lost, reply>>

\* the supervisor enters self.analysis_complete.wait(timeout=timeout)
BeginWait ==
    /\ pc = "begin_wait"
    /\ logged' = logged \cup {"Waiting for initial workspace analysis"}
    /\ elapsed' = 0
    /\ pc' = "wait"
    /\ UNCHANGED <<handlers, started, outbox, init_response, nSent, hpc,
                   cur, ready_at_entry, found_source_files, analysis_complete,
                   completions_available, flipped_by, lost, reply>>

\* time passes while the supervisor is blocked in wait
Tick ==
    /\ pc = "wait"
    /\ elapsed < Timeout
    /\ elapsed' = elapsed + TickSeconds
    /\ UNCHANGED <<pc, handlers, started, outbox, init_response, nSent,
                   hpc, cur, ready_at_entry, found_source_files, analysis_complete,
                   completions_available, logged, flipped_by, lost, reply>>

\* wait returns True: the event is set
WaitSignalled ==
    /\ pc = "wait"
    /\ analysis_complete
    /\ logged' = logged \cup {"initial analysis complete, server ready"}
    /\ pc' = "done"
    /\ UNCHANGED <<handlers, started, outbox, init_response, nSent, hpc,
                   cur, ready_at_entry, found_source_files, analysis_complete,
                   completions_available, elapsed, flipped_by, lost, reply>>

\* mutant: wait() without a timeout never returns False
WaitWithoutTimeout ==
    /\ pc = "wait"
    /\ FALSE
    /\ UNCHANGED vars

\* mutant: wait(timeout=0) returns False without any time having passed
WaitTimeoutAtOnce ==
    /\ pc = "wait"
    /\ ~analysis_complete
    /\ pc' = "timeout_fallback"
    /\ UNCHANGED <<handlers, started, outbox, init_response, nSent, hpc,
                   cur, ready_at_entry, found_source_files, analysis_complete,
                   completions_available, elapsed, logged, flipped_by, lost, reply>>

\* wait returns False: the timeout has run out with the event unset
WaitTimeout ==
    /\ pc = "wait"
    /\ ~analysis_complete
    /\ elapsed >= Timeout
    /\ pc' = "timeout_fallback"
    /\ UNCHANGED <<handlers, started, outbox, init_response, nSent, hpc,
                   cur, ready_at_entry, found_source_files, analysis_complete,
                   completions_available, elapsed, logged, flipped_by, lost, reply>>

\* threading.Event.set() by `who`: the flag is set, and who found it unset
\* is the one that released the waiters
EventSetBy(who) ==
    /\ analysis_complete' = TRUE
    /\ flipped_by' = IF analysis_complete THEN flipped_by ELSE Append(flipped_by, who)

\* mutant: the timeout is raised to the caller as an error
TimeoutFallbackRaises ==
    /\ pc = "timeout_fallback"
    /\ logged' = logged \cup {"Timeout waiting for analysis completion"}
    /\ pc' = "failed"
    /\ UNCHANGED <<handlers, started, outbox, init_response, nSent, hpc,
                   cur, ready_at_entry, found_source_files, analysis_complete,
                   completions_available, elapsed, flipped_by, lost, reply>>

\* mutant: the fallback also sets self.found_source_files
TimeoutFallbackSetsFound ==
    /\ pc = "timeout_fallback"
    /\ logged' = logged \cup {"Timeout waiting for analysis completion"}
    /\ found_source_files' = TRUE
    /\ EventSetBy("timeout")
    /\ pc' = "done"
    /\ UNCHANGED <<handlers, started, outbox, init_response, nSent, hpc, cur,
                   ready_at_entry, completions_available, elapsed, lost, reply>>

\* the else branch: the timeout warning, then self.analysis_complete.set()
TimeoutFallback ==
    /\ pc = "timeout_fallback"
    /\ logged' = logged \cup {"Timeout waiting for analysis completion"}
    /\ EventSetBy("timeout")
    /\ pc' = "done"
    /\ UNCHANGED <<handlers, started, outbox, init_response, nSent, hpc,
                   cur, ready_at_entry, found_source_files, completions_available, elapsed, lost,
                   reply>>

Supervisor ==
    \/ Register
    \/ StartTransport
    \/ SendInitialize
    \/ InitializeReturn
    \/ Validate
    \/ NotifyInitialized
    \/ BeginWait
    \/ WaitSignalled
    \/ WaitTimeout
    \/ TimeoutFallback

(***************************************************************************)
(* The server process (the environment).                                   *)
(***************************************************************************)
\* the server answers the initialize request
ServerRespond ==
    /\ started
    /\ "initialize" \in {outbox[i] : i \in 1..Len(outbox)}
    /\ ~init_response.present
    /\ \E r \in Responses : init_response' = r
    /\ UNCHANGED <<pc, handlers, started, outbox, nSent, hpc, cur, ready_at_entry,
                   found_source_files, analysis_complete, completions_available,
                   elapsed, logged, flipped_by, lost, reply>>

(***************************************************************************)
(* The delivery thread: it takes one inbound message at a time and runs    *)
(* the handler registered for its method, statement by statement.          *)
(***************************************************************************)
\* the server sends a notification or a request of its own, the delivery
\* thread reads it and looks its method up in the handler table (a frame the
\* server has written and the thread has not read yet is one not yet sent)
Dispatch ==
    /\ started
    /\ hpc = "idle"
    /\ nSent < MaxMsgs
    /\ nSent' = nSent + 1
    /\ \E m \in Messages :
         IF handlers[m.method] = "none"
           THEN /\ lost' = lost \cup {m.method}
                /\ UNCHANGED <<hpc, cur, ready_at_entry>>
           ELSE /\ hpc' = handlers[m.method]
                /\ cur' = m
                /\ ready_at_entry' = analysis_complete
                /\ UNCHANGED lost
    /\ UNCHANGED <<pc, handlers, started, outbox, init_response,
                   found_source_files, analysis_complete, completions_available,
                   elapsed, logged, flipped_by, reply>>

\* the handler returns `result` (sent back as the reply when cur is a request)
Return(result) ==
    /\ reply' = IF cur.method \in RequestMethods
                  THEN [to |-> cur.method, isList |-> result.isList,
                        list |-> result.list]
                  ELSE reply
    /\ hpc' = "idle"
    /\ cur' = NoMsg
    /\ ready_at_entry' = FALSE

\* the Python value None, and a Python list
ReturnNone == [isList |-> FALSE, list |-> << >>]
ReturnList(l) == [isList |-> TRUE, list |-> l]

\* mutant: the handler waits for analysis_complete before it returns
do_nothing_when_ready ==
    /\ hpc = "do_nothing"
    /\ analysis_complete
    /\ Return(ReturnNone)
    /\ UNCHANGED <<pc, handlers, started, outbox, init_response, nSent,
                   found_source_files, analysis_complete, completions_available,
                   elapsed, logged, flipped_by, lost>>

\* def do_nothing(params): return
do_nothing ==
    /\ hpc = "do_nothing"
    /\ Return(ReturnNone)
    /\ UNCHANGED <<pc, handlers, started, outbox, init_response, nSent,
                   found_source_files, analysis_complete, completions_available,
                   elapsed, logged, flipped_by, lost>>

\* def execute_client_command_handler(params): return []
execute_client_command_handler ==
    /\ hpc = "execute_client_command_handler"
    /\ Return(ReturnList(<< >>))
    /\ UNCHANGED <<pc, handlers, started, outbox, init_response, nSent,
                   found_source_files, analysis_complete, completions_available,
                   elapsed, logged, flipped_by, lost>>

\* len(params.get("items", []))
ItemCount(params) == IF params.hasItems THEN params.items ELSE 0

\* mutant: return [{}], whatever the number of requested items
workspace_configuration_handler_one ==
    /\ hpc = "workspace_configuration_handler"
    /\ Return(ReturnList(<<EmptyDict>>))
    /\ UNCHANGED <<pc, handlers, started, outbox, init_response, nSent,
                   found_source_files, analysis_complete, completions_available,
                   elapsed, logged, flipped_by, lost>>

\* return [{}] * len(params.get("items", []))
workspace_configuration_handler ==
    /\ hpc = "workspace_configuration_handler"
    /\ Return(ReturnList([i \in 1..ItemCount(cur) |-> EmptyDict]))
    /\ UNCHANGED <<pc, handlers, started, outbox, init_response, nSent,
                   found_source_files, analysis_complete, completions_available,
                   elapsed, logged, flipped_by, lost>>

\* msg.get("message", "")
MessageText(msg) == IF msg.hasText THEN msg.text ELSE EmptyText

\* value.get("kind", "")
ProgressKind(params) == IF params.hasKind THEN params.kind ELSE ""

\* mutant: the keywords are looked for in message_text, not message_text.lower()
LogMatchesCaseSensitive(msg) ==
    \E k \in 1..Len(LogKeywords) : Contains(MessageText(msg), LogKeywords[k])

\* mutant: only the first keyword of the list is looked for
LogMatchesFirstKeyword(msg) ==
    Contains(Lower(MessageText(msg)), LogKeywords[1])

\* the condition of window_log_message
LogMatches(msg) == AnyKeyword(MessageText(msg), LogKeywords)

\* the condition of window_show_message
ShowMatches(msg) == AnyKeyword(MessageText(msg), ShowKeywords)

\* mutant: the kind of the progress value is not looked at
ProgressMatchesAnyKind(params) ==
    AnyKeyword(MessageText(params), ProgressKeywords)

\* the condition of progress_notification
ProgressMatches(params) ==
    /\ ProgressKind(params) = "end"
    /\ AnyKeyword(MessageText(params), ProgressKeywords)

\* window_log_message up to its if: on a match it goes on to the three sets
window_log_message ==
    /\ hpc = "window_log_message"
    /\ IF LogMatches(cur)
         THEN /\ logged' = logged \cup {"SourceKit-LSP workspace analysis complete"}
              /\ hpc' = "set_found"
              /\ UNCHANGED <<cur, ready_at_entry, reply>>
         ELSE /\ Return(ReturnNone)
              /\ UNCHANGED logged
    /\ UNCHANGED <<pc, handlers, started, outbox, init_response, nSent,
                   found_source_files, analysis_complete, completions_available,
                   elapsed, flipped_by, lost>>

\* window_show_message up to its inner if not self.found_source_files
window_show_message ==
    /\ hpc = "window_show_message"
    /\ IF ShowMatches(cur)
         THEN /\ logged' = logged \cup {"SourceKit-LSP analysis detected via showMessage"}
              /\ IF ~found_source_files
                   THEN /\ hpc' = "set_found"
                        /\ UNCHANGED <<cur, ready_at_entry, reply>>
                   ELSE Return(ReturnNone)
         ELSE /\ Return(ReturnNone)
              /\ UNCHANGED logged
    /\ UNCHANGED <<pc, handlers, started, outbox, init_response, nSent,
                   found_source_files, analysis_complete, completions_available,
                   elapsed, flipped_by, lost>>

\* progress_notification up to its inner if not self.found_source_files
progress_notification ==
    /\ hpc = "progress_notification"
    /\ IF ProgressMatches(cur)
         THEN /\ logged' = logged \cup {"SourceKit-LSP progress end"}
              /\ IF ~found_source_files
                   THEN /\ hpc' = "set_found"
                        /\ UNCHANGED <<cur, ready_at_entry, reply>>
                   ELSE Return(ReturnNone)
         ELSE /\ Return(ReturnNone)
              /\ UNCHANGED logged
    /\ UNCHANGED <<pc, handlers, started, outbox, init_response, nSent,
                   found_source_files, analysis_complete, completions_available,
                   elapsed, flipped_by, lost>>

\* self.found_source_files = True
SetFoundSourceFiles ==
    /\ hpc = "set_found"
    /\ found_source_files' = TRUE
    /\ hpc' = "set_analysis"
    /\ UNCHANGED <<pc, handlers, started, outbox, init_response, nSent,
                   cur, ready_at_entry, analysis_complete, completions_available, elapsed, logged,
                   flipped_by, lost, reply>>

\* mutant: the handler goes on without calling self.analysis_complete.set()
SetAnalysisCompleteSkipped ==
    /\ hpc = "set_analysis"
    /\ hpc' = "set_completions"
    /\ UNCHANGED <<pc, handlers, started, outbox, init_response, nSent, cur,
                   ready_at_entry, found_source_files, analysis_complete,
                   completions_available, elapsed, logged, flipped_by, lost, reply>>

\* self.analysis_complete.set()
SetAnalysisComplete ==
    /\ hpc = "set_analysis"
    /\ EventSetBy(handlers[cur.method])
    /\ hpc' = "set_completions"
    /\ UNCHANGED <<pc, handlers, started, outbox, init_response, nSent,
                   cur, ready_at_entry, found_source_files, completions_available, elapsed, logged,
                   lost, reply>>

\* self.completions_available.set(), and the handler returns
SetCompletionsAvailable ==
    /\ hpc = "set_completions"
    /\ completions_available' = TRUE
    /\ Return(ReturnNone)
    /\ UNCHANGED <<pc, handlers, started, outbox, init_response, nSent,
                   found_source_files, analysis_complete, elapsed, logged,
                   flipped_by, lost>>

Delivery ==
    \/ Dispatch
    \/ do_nothing
    \/ execute_client_command_handler
    \/ workspace_configuration_handler
    \/ window_log_message
    \/ window_show_message
    \/ progress_notification
    \/ SetFoundSourceFiles
    \/ SetAnalysisComplete
    \/ SetCompletionsAvailable

Server == ServerRespond

Next == Supervisor \/ Tick \/ Delivery \/ Server

Spec == Init /\ [][Next]_vars

\* the supervisor thread is scheduled, and time passes while it waits; the
\* server owes nothing
FairSpec == Spec /\ WF_vars(Supervisor) /\ WF_vars(Tick)

(***************************************************************************)
(* Vocabulary of the properties.                                           *)
(***************************************************************************)
\* the methods the client has sent so far
Sent == {outbox[i] : i \in 1..Len(outbox)}

\* the log lines a handler writes when its keyword test succeeds
MatchLogs ==
    {"SourceKit-LSP workspace analysis complete",
     "SourceKit-LSP analysis detected via showMessage",
     "SourceKit-LSP progress end"}

\* a keyword test has succeeded in some handler
MatchSeen == logged \cap MatchLogs # {}

ReadyLog == "initial analysis complete, server ready"
TimeoutLog == "Timeout waiting for analysis completion"
WaitingLog == "Waiting for initial workspace analysis"

\* the three handlers that may set the readiness signal
ReadinessHandlers ==
    {"window_log_message", "window_show_message", "progress_notification"}

\* message m matches the keyword list of the channel it arrives on
ChannelMatch(m) ==
    CASE m.method = "window/logMessage" -> AnyKeyword(MessageText(m), LogKeywords)
      [] m.method = "window/showMessage" -> AnyKeyword(MessageText(m), ShowKeywords)
      [] m.method = "$/progress" ->
            ProgressKind(m) = "end" /\ AnyKeyword(MessageText(m), ProgressKeywords)
      [] OTHER -> FALSE

\* the transitions of the Lifecycle Supervisor's state machine
AllowedTransitions ==
    { <<"NotStarted", "HandlersInstalled">>,
      <<"HandlersInstalled", "TransportStarted">>,
      <<"TransportStarted", "HandshakeComplete">>,
      <<"TransportStarted", "Failed">>,
      <<"HandshakeComplete", "AwaitingReadiness">>,
      <<"AwaitingReadiness", "Ready">> }

(***************************************************************************)
(* C1.  `initialized` is sent only after the `initialize` request has      *)
(* returned a response whose capabilities contain textDocumentSync: never  *)
(* before the response, never when the response lacks textDocumentSync,    *)
(* and it follows `initialize` on the wire.                                *)
(***************************************************************************)
C1_InitializedOnlyAfterValidResponse ==
    /\ "initialized" \in Sent =>
          /\ init_response.present
          /\ "Received initialize response" \in logged
          /\ "textDocumentSync" \in Capabilities(init_response)
    /\ \A i \in 1..Len(outbox) :
          outbox[i] = "initialized" => \E j \in 1..(i - 1) : outbox[j] = "initialize"

C1_Witness ==
    /\ pc = "begin_wait"
    /\ "initialized" \in Sent
    /\ "textDocumentSync" \in Capabilities(init_response)

(***************************************************************************)
(* C2.  Once the handshake has completed the supervisor always reaches     *)
(* Ready, whatever the server does; and when it is Ready with no keyword   *)
(* test ever having succeeded, the wait has run its full timeout and the   *)
(* supervisor itself has set the readiness signal.                         *)
(***************************************************************************)
C2_ReadyDespiteSilence ==
    /\ (pc = "begin_wait") ~> (pc = "done" /\ analysis_complete)
    /\ [](pc = "done" /\ ~MatchSeen =>
             /\ flipped_by = <<"timeout">>
             /\ TimeoutLog \in logged
             /\ elapsed >= Timeout)

C2_Witness ==
    /\ pc = "done"
    /\ ~MatchSeen
    /\ nSent = 0
    /\ flipped_by = <<"timeout">>

(***************************************************************************)
(* C3.  The supervisor is never Ready early: when it is Ready, either its  *)
(* wait returned True on a signal that a handler had set, or the timeout   *)
(* of the wait has elapsed; with no keyword test having succeeded, Ready   *)
(* means the timeout has elapsed.                                          *)
(***************************************************************************)
C3_NeverReadyEarly ==
    /\ pc = "done" =>
          \/ /\ ReadyLog \in logged
             /\ Len(flipped_by) = 1
             /\ flipped_by[1] \in ReadinessHandlers
          \/ elapsed >= Timeout
    /\ pc = "done" /\ ~MatchSeen => elapsed >= Timeout
    /\ pc = "timeout_fallback" => elapsed >= Timeout

C3_Witness ==
    /\ pc = "done"
    /\ ReadyLog \in logged
    /\ elapsed < Timeout
    /\ elapsed > 0

(***************************************************************************)
(* C4.  A response without textDocumentSync is fatal in TransportStarted:  *)
(* the supervisor gets no further than Failed, `initialized` is not sent,  *)
(* the wait is never begun (no time is spent in it), and the supervisor    *)
(* never sets the readiness signal itself.                                 *)
(***************************************************************************)
C4_MissingSyncIsFatal ==
    /\ init_response.present /\ "textDocumentSync" \notin Capabilities(init_response) =>
          /\ State \in {"TransportStarted", "Failed"}
          /\ pc # "notify_initialized"
    /\ pc = "failed" =>
          /\ init_response.present
          /\ "textDocumentSync" \notin Capabilities(init_response)
          /\ "initialized" \notin Sent
          /\ WaitingLog \notin logged
          /\ elapsed = 0
          /\ TimeoutLog \notin logged
          /\ \A i \in 1..Len(flipped_by) : flipped_by[i] # "timeout"

C4_Witness ==
    /\ pc = "failed"
    /\ Capabilities(init_response) = {"completionProvider", "definitionProvider"}
    /\ analysis_complete

(***************************************************************************)
(* C5.  analysis_complete is a monotonic latch: no step of the supervisor, *)
(* of a handler or of the server takes it from set to unset.               *)
(***************************************************************************)
C5_LatchMonotonic == [][analysis_complete => analysis_complete']_vars

C5_Witness ==
    /\ analysis_complete
    /\ pc = "done"
    /\ nSent = MaxMsgs
    /\ hpc = "idle"

(***************************************************************************)
(* C6.  The readiness signal goes from pending to ready at most once, by   *)
(* one setter (a handler or the timeout fallback); and whenever a handler  *)
(* returns from a message that matches its channel's keyword list, the     *)
(* signal is set and has gone from pending to ready exactly once, however  *)
(* many matching messages there were and whether or not the timeout ran    *)
(* out meanwhile.                                                          *)
(***************************************************************************)
C6_ReadyExactlyOnce ==
    /\ [](Len(flipped_by) <= 1 /\ (analysis_complete <=> Len(flipped_by) = 1))
    /\ [][(hpc # "idle" /\ hpc' = "idle" /\ ChannelMatch(cur)) =>
             (analysis_complete' /\ Len(flipped_by') = 1)]_vars

C6_Witness ==
    /\ Cardinality(logged \cap MatchLogs) = 2
    /\ TimeoutLog \in logged
    /\ Len(flipped_by) = 1
    /\ flipped_by[1] \in ReadinessHandlers
    /\ hpc = "idle"

(***************************************************************************)
(* C7.  The supervisor's state changes only along NotStarted ->            *)
(* HandlersInstalled -> TransportStarted -> HandshakeComplete ->           *)
(* AwaitingReadiness -> Ready, or from TransportStarted to Failed; Ready   *)
(* and Failed are never left, and initialize is sent at most once.         *)
(***************************************************************************)
C7_StateMachine ==
    /\ [][(State' # State) => <<State, State'>> \in AllowedTransitions]_vars
    /\ [][(State \in {"Ready", "Failed"}) => State' = State]_vars
    /\ [](Cardinality({i \in 1..Len(outbox) : outbox[i] = "initialize"}) <= 1)

C7_Witness ==
    /\ State = "Ready"
    /\ outbox = <<"initialize", "initialized">>
    /\ nSent = MaxMsgs

(***************************************************************************)
(* C8.  Subscribe before publish: once the transport is started all seven  *)
(* handlers are registered, so no inbound message is ever dispatched       *)
(* while its method has no handler.                                        *)
(***************************************************************************)
C8_SubscribeBeforePublish ==
    /\ lost = {}
    /\ started => \A m \in Methods : handlers[m] # "none"
    /\ hpc # "idle" => cur.method \in Methods /\ handlers[cur.method] # "none"

C8_Witness ==
    /\ pc = "initialize"
    /\ hpc = "window_log_message"
    /\ nSent = MaxMsgs

(***************************************************************************)
(* C9.  A response with textDocumentSync but without completionProvider    *)
(* and/or definitionProvider is not fatal: the supervisor never fails on   *)
(* it, and goes on to send `initialized` and to reach Ready.               *)
(***************************************************************************)
C9_OptionalCapabilitiesNotFatal ==
    /\ [](init_response.present /\ "textDocumentSync" \in Capabilities(init_response)
            => pc # "failed")
    /\ (/\ pc = "validate"
        /\ "textDocumentSync" \in Capabilities(init_response)
        /\ Capabilities(init_response) # CapabilityKeys)
         ~> (pc = "done" /\ "initialized" \in Sent /\ analysis_complete)

C9_Witness ==
    /\ pc = "done"
    /\ Capabilities(init_response) = {"textDocumentSync"}
    /\ "initialized" \in Sent
    /\ {"Warning: no completionProvider", "Warning: no definitionProvider"}
          \subseteq logged

C10_SignalPathObservation ==
    pc = "done" /\ hpc = "idle" /\ ReadyLog \in logged =>
        <<found_source_files, analysis_complete, completions_available>>
            = <<TRUE, TRUE, TRUE>>

(***************************************************************************)
(* C11.  Start-up never blocks without bound: with the supervisor thread   *)
(* scheduled and time passing, and nothing assumed of the server, every    *)
(* call of _start_server ends in Ready or in Failed.                       *)
(***************************************************************************)
C11_StartupTerminates == <>(State \in {"Ready", "Failed"})

C13_ProgressRule(params) ==
    /\ params.hasKind
    /\ params.kind = "end"
    /\ \/ Contains(Lower(MessageText(params)), <<"i","n","d","e","x","i","n","g">>)
       \/ Contains(Lower(MessageText(params)), <<"b","u","i","l","d","i","n","g">>)
       \/ Contains(Lower(MessageText(params)), <<"r","e","s","o","l","v","i","n","g">>)

C13_ProgressEndSetsReadiness ==
    /\ [][(hpc = "progress_notification" /\ hpc' # hpc) =>
            IF C13_ProgressRule(cur)
              THEN \/ hpc' = "set_found"
                   \/ hpc' = "idle" /\ found_source_files /\ analysis_complete
              ELSE /\ hpc' = "idle"
                   /\ UNCHANGED sessionVars]_vars
    /\ [][(cur.method = "$/progress" /\ hpc # "idle" /\ hpc' = "idle"
             /\ C13_ProgressRule(cur)) => analysis_complete']_vars

C13_Witness ==
    /\ cur = ProgressMsg("end", TxtBuildingDependencies)
    /\ hpc = "set_completions"
    /\ flipped_by = <<"progress_notification">>

(***************************************************************************)
(* C14.  workspace_configuration_handler answers a request for n items     *)
(* (n = 0 when the request has no items field) with a list of exactly n    *)
(* empty configuration objects, in whatever state the supervisor and the   *)
(* readiness signal are.                                                   *)
(***************************************************************************)
C14_ConfigurationEchoesItemCount ==
    [][(hpc = "workspace_configuration_handler" /\ hpc' # hpc) =>
          /\ hpc' = "idle"
          /\ reply'.to = "workspace/configuration"
          /\ reply'.isList
          /\ Len(reply'.list) = (IF cur.hasItems THEN cur.items ELSE 0)
          /\ \A i \in 1..Len(reply'.list) : reply'.list[i] = EmptyDict]_vars

C14_Witness ==
    /\ reply.to = "workspace/configuration"
    /\ reply.isList
    /\ reply.list = <<EmptyDict, EmptyDict, EmptyDict>>
    /\ ~analysis_complete
    /\ pc = "await_response"

(***************************************************************************)
(* C15.  do_nothing (client/registerCapability and                         *)
(* textDocument/publishDiagnostics), execute_client_command_handler and    *)
(* workspace_configuration_handler never wait on the readiness signal:     *)
(* once called, each can always take its step, that one step returns, and  *)
(* it leaves found_source_files, analysis_complete and                     *)
(* completions_available as they were.                                     *)
(***************************************************************************)
C15_NonReadinessHandlers ==
    {"do_nothing", "execute_client_command_handler", "workspace_configuration_handler"}

C15_RequestHandlersNeverBlock ==
    /\ [](hpc \in C15_NonReadinessHandlers => ENABLED Delivery)
    /\ [][(hpc \in C15_NonReadinessHandlers /\ hpc' # hpc) =>
             /\ hpc' = "idle"
             /\ UNCHANGED sessionVars]_vars

C15_Witness ==
    /\ hpc = "do_nothing"
    /\ cur.method = "textDocument/publishDiagnostics"
    /\ ~analysis_complete
    /\ pc = "wait"

(***************************************************************************)
(* C16.  As claimed: a window/logMessage whose text contains, in any       *)
(* letter case, "indexing complete", "build complete", "compilation        *)
(* finished" or "package resolved" goes on to set the readiness signal,    *)
(* and one that contains none of them leaves the session variables as      *)
(* they were (C16_SpecKeywordsTrigger).  As amended: the same with the     *)
(* keyword list of window_log_message, "indexing complete", "finished      *)
(* indexing", "build complete", "compilation finished", "swift package     *)
(* resolved" (C16_CodeKeywordsTrigger).                                    *)
(***************************************************************************)
C16_SpecKeywords ==
    << <<"i","n","d","e","x","i","n","g"," ","c","o","m","p","l","e","t","e">>,
       <<"b","u","i","l","d"," ","c","o","m","p","l","e","t","e">>,
       <<"c","o","m","p","i","l","a","t","i","o","n"," ","f","i","n","i","s","h","e","d">>,
       <<"p","a","c","k","a","g","e"," ","r","e","s","o","l","v","e","d">> >>

C16_SpecKeywordsTrigger ==
    [][(hpc = "window_log_message" /\ hpc' # hpc) =>
          IF AnyKeyword(MessageText(cur), C16_SpecKeywords)
            THEN hpc' = "set_found"
            ELSE hpc' = "idle" /\ UNCHANGED sessionVars]_vars

C16_CodeKeywordsTrigger ==
    /\ [][(hpc = "window_log_message" /\ hpc' # hpc) =>
            IF AnyKeyword(MessageText(cur), LogKeywords)
              THEN hpc' = "set_found"
              ELSE hpc' = "idle" /\ UNCHANGED sessionVars]_vars
    /\ [][(cur.method = "window/logMessage" /\ hpc # "idle" /\ hpc' = "idle"
             /\ AnyKeyword(MessageText(cur), LogKeywords)) =>
             analysis_complete' /\ found_source_files' /\ completions_available']_vars

C16_Witness ==
    /\ cur = TextMsg("window/logMessage", TxtSwiftPackageResolvedMixed)
    /\ hpc = "set_completions"
    /\ flipped_by = <<"window_log_message">>

(***************************************************************************)
(* C17.  Early messages are not lost: when the readiness signal has been   *)
(* set by a handler before the supervisor begins its wait, the supervisor  *)
(* never takes the timeout path (wait does not return False, the timeout   *)
(* warning is not logged, the supervisor does not set the signal), and it  *)
(* reaches Ready through the signal path.                                  *)
(***************************************************************************)
C17_EarlyMessagesNotLost ==
    /\ [](pc = "begin_wait" /\ analysis_complete =>
            [](/\ pc # "timeout_fallback"
               /\ TimeoutLog \notin logged
               /\ flipped_by # <<"timeout">>))
    /\ (pc = "begin_wait" /\ analysis_complete)
          ~> (pc = "done" /\ ReadyLog \in logged /\ TimeoutLog \notin logged)

\* a matching message was handled while initialize was outstanding or being
\* validated, the handshake has succeeded, and the wait is about to begin
C17_Witness ==
    /\ pc = "begin_wait"
    /\ "initialized" \in Sent
    /\ hpc = "idle"
    /\ analysis_complete
    /\ completions_available
    /\ Len(flipped_by) = 1
    /\ flipped_by[1] \in ReadinessHandlers

C19_GuardSwallowsNothing ==
    /\ [](found_source_files /\ hpc # "set_analysis" => analysis_complete)
    /\ [][(hpc \in ReadinessHandlers /\ hpc' = "idle" /\ ChannelMatch(cur)) =>
             (found_source_files /\ analysis_complete')]_vars
    /\ [][(hpc = "set_completions" /\ hpc' = "idle") => analysis_complete']_vars

C19_Witness ==
    /\ hpc = "idle"
    /\ nSent = 2
    /\ {"SourceKit-LSP workspace analysis complete",
        "SourceKit-LSP analysis detected via showMessage"} \subseteq logged
    /\ flipped_by = <<"window_log_message">>
    /\ analysis_complete

(***************************************************************************)
(* C20.  found_source_files is false initially and becomes true only by    *)
(* the assignment of a readiness handler that is handling a message        *)
(* matching its channel's keywords; the timeout fallback, the other        *)
(* handlers and non-matching messages never set it, and once true it       *)
(* stays true.                                                             *)
(***************************************************************************)
C20_FoundOnlyByMatch ==
    /\ [](found_source_files => MatchSeen)
    /\ [][found_source_files => found_source_files']_vars
    /\ [][(found_source_files' # found_source_files) =>
             /\ hpc = "set_found"
             /\ handlers[cur.method] \in ReadinessHandlers
             /\ ChannelMatch(cur)
             /\ pc' = pc]_vars

C20_Witness ==
    /\ found_source_files
    /\ State = "Ready"
    /\ flipped_by = <<"timeout">>
    /\ hpc = "idle"

====
